---- MODULE Spec2Model ----
(***************************************************************************)
(* Model of main/salt_level_monitor.c: the Wi-Fi station bring-up          *)
(* (event_handler, wifi_init_sta), the MQTT session flag                   *)
(* (mqtt_event_handler, mqtt_app_start), the discovery publisher           *)
(* (publish_ha_discovery) and the telemetry task (sensor_task), started by *)
(* app_main.                                                               *)
(*                                                                         *)
(* Four execution contexts interleave: the main task (app_main), the       *)
(* default event loop task (event_handler), the MQTT client task           *)
(* (mqtt_event_handler) and sensor_task.  Each handler invocation is one   *)
(* atomic step of its own task; sensor_task and app_main are cut at every  *)
(* read of a shared variable, every publish and every blocking call.       *)
(***************************************************************************)
EXTENDS Integers, FiniteSets

(* CONFIG_WIFI_MAXIMUM_RETRY: a build-time option, any value >= 0 *)
MaxRetries == 2

(* Saturation point of the history counters (they record, they never guard) *)
MaxCount == 2

VARIABLES
    main_pc,        \* position of app_main / wifi_init_sta
    sta,            \* Wi-Fi driver station state, as driven by esp_wifi_start/esp_wifi_connect
    wifi_ev,        \* event_id of the last event event_handler handled
    retry_on_entry, \* s_retry_num when event_handler was last entered
    s_retry_num,    \* static int s_retry_num
    bits,           \* s_wifi_event_group
    uxReturn,       \* EventBits_t bits returned by xEventGroupWaitBits
    wifi_result,    \* which of the three outcomes wifi_init_sta logged
    mqtt_client,    \* esp_mqtt_client_handle_t mqtt_client
    mqtt_connected, \* static bool mqtt_connected
    mqtt_log,       \* last line logged by mqtt_event_handler
    sensor_pc,      \* position of sensor_task
    sensor_log,     \* last line logged by sensor_task / publish_ha_discovery
    seen_connected, \* the value of mqtt_connected read by the last `if` at line 294
    last_pub,       \* arguments of the last esp_mqtt_client_publish call
    n_pub,          \* per topic: number of esp_mqtt_client_publish calls
    n_disc_calls,   \* number of publish_ha_discovery invocations
    n_connected_ev, \* number of MQTT_EVENT_CONNECTED events handled
    n_connect,      \* number of esp_wifi_connect calls
    reconnects,     \* esp_wifi_connect calls of the STA_DISCONNECTED branch since the last GOT_IP
    n_got_ip,       \* number of IP_EVENT_STA_GOT_IP events handled
    n_fail_set,     \* number of xEventGroupSetBits(WIFI_FAIL_BIT) calls
    tank_height,    \* CONFIG_TANK_HEIGHT_CM, in cm
    count,          \* static int count of read_distance_cm
    distance,       \* float distance, in tenths of a cm
    percentage,     \* float percentage, as a fraction num/den
    payload,        \* the formatted state payload
    meas_pc         \* position in the measurement path of a telemetry cycle

wifiVars   == <<sta, wifi_ev, retry_on_entry, s_retry_num, n_connect, reconnects, n_got_ip, n_fail_set>>
groupVars  == <<bits, uxReturn>>
mainVars   == <<main_pc, wifi_result>>
mqttVars   == <<mqtt_client, mqtt_connected, mqtt_log, n_connected_ev>>
taskVars   == <<sensor_pc, sensor_log, seen_connected>>
brokerVars == <<last_pub, n_pub, n_disc_calls>>
measVars   == <<tank_height, count, distance, percentage, payload, meas_pc>>
progVars   == <<wifiVars, groupVars, mainVars, mqttVars, taskVars, brokerVars>>
vars == <<progVars, measVars>>

WIFI_CONNECTED_BIT == "WIFI_CONNECTED_BIT"
WIFI_FAIL_BIT == "WIFI_FAIL_BIT"

DistanceConfigTopic == "homeassistant/sensor/<id>/distance/config"
PercentageConfigTopic == "homeassistant/sensor/<id>/percentage/config"
StateTopic == "homeassistant/sensor/<id>/state"
Topics == {DistanceConfigTopic, PercentageConfigTopic, StateTopic}

NoPub == [topic |-> "none", qos |-> 0, retain |-> FALSE, connected |-> FALSE]

Inc(n) == IF n < MaxCount THEN n + 1 ELSE n
IncTo(n, cap) == IF n < cap THEN n + 1 ELSE n

(* no measurement made yet *)
NoPercentage == [num |-> 0, den |-> 1]
NoPayload == [distance |-> 0, percentage |-> 0]

(* the state at boot of everything but the measurement path *)
ProgInit ==
    /\ main_pc = "nvs_init"
    /\ sta = "stopped"
    /\ wifi_ev = "none"
    /\ retry_on_entry = 0
    /\ s_retry_num = 0
    /\ bits = {}
    /\ uxReturn = {}
    /\ wifi_result = "none"
    /\ mqtt_client = "NULL"
    /\ mqtt_connected = FALSE
    /\ mqtt_log = "none"
    /\ sensor_pc = "not_created"
    /\ sensor_log = "none"
    /\ seen_connected = FALSE
    /\ last_pub = NoPub
    /\ n_pub = [t \in Topics |-> 0]
    /\ n_disc_calls = 0
    /\ n_connected_ev = 0
    /\ n_connect = 0
    /\ reconnects = 0
    /\ n_got_ip = 0
    /\ n_fail_set = 0

(* Spec follows the control flow of the tasks; the values measured in a     *)
(* cycle do not steer it and stay at rest there (MeasureSpec follows them)  *)
Init ==
    /\ ProgInit
    /\ tank_height = 100
    /\ count = 0
    /\ distance = 0
    /\ percentage = NoPercentage
    /\ payload = NoPayload
    /\ meas_pc = "idle"

(***************************************************************************)
(* FreeRTOS event group and Wi-Fi driver calls made by the handlers        *)
(***************************************************************************)

(* xEventGroupSetBits(s_wifi_event_group, b): the bit is or-ed in (nothing  *)
(* ever clears a bit); a task blocked in xEventGroupWaitBits on it is       *)
(* released and is handed the group's value at that moment.                 *)
SetBits(b) ==
    /\ bits' = bits \cup {b}
    /\ IF main_pc = "blocked"
       THEN /\ main_pc' = "wifi_ret"
            /\ uxReturn' = bits \cup {b}
       ELSE UNCHANGED <<main_pc, uxReturn>>

(* esp_wifi_connect(): the station starts one connection attempt *)
EspWifiConnect ==
    /\ sta' = "connecting"
    /\ n_connect' = IncTo(n_connect, MaxRetries + 2)

(***************************************************************************)
(* event_handler: one action per event it is registered for                *)
(***************************************************************************)

(* WIFI_EVENT_STA_START, posted once by esp_wifi_start() *)
StaStart ==
    /\ sta = "started"
    /\ wifi_ev' = "WIFI_EVENT_STA_START"
    /\ retry_on_entry' = s_retry_num
    /\ EspWifiConnect
    /\ UNCHANGED <<s_retry_num, reconnects, n_got_ip, n_fail_set>>
    /\ UNCHANGED <<groupVars, mainVars, mqttVars, taskVars, brokerVars>>
    /\ UNCHANGED measVars

(* variant: the comparison gives up one retry early *)
RetryAllowed_oneEarly == s_retry_num + 1 < MaxRetries

(* variant: <= in place of < *)
RetryAllowed_lessOrEqual == s_retry_num <= MaxRetries

(* if (s_retry_num < CONFIG_WIFI_MAXIMUM_RETRY) *)
RetryAllowed == s_retry_num < MaxRetries

(* then: esp_wifi_connect(); s_retry_num++ *)
RetryBranch ==
    /\ EspWifiConnect
    /\ s_retry_num' = s_retry_num + 1
    /\ reconnects' = IncTo(reconnects, MaxRetries + 1)
    /\ UNCHANGED <<n_fail_set, groupVars, mainVars>>

(* variant: the else branch also calls esp_wifi_connect() *)
FailBranch_reconnects ==
    /\ EspWifiConnect
    /\ SetBits(WIFI_FAIL_BIT)
    /\ n_fail_set' = Inc(n_fail_set)
    /\ UNCHANGED <<s_retry_num, reconnects, wifi_result>>

(* variant: the else branch gives up without raising WIFI_FAIL_BIT *)
FailBranch_silent ==
    /\ n_fail_set' = Inc(n_fail_set)
    /\ sta' = "idle"
    /\ UNCHANGED <<s_retry_num, reconnects, n_connect, groupVars, mainVars>>

(* else: xEventGroupSetBits(s_wifi_event_group, WIFI_FAIL_BIT); no connect  *)
(* call is made, so the station stays idle                                  *)
FailBranch ==
    /\ SetBits(WIFI_FAIL_BIT)
    /\ n_fail_set' = Inc(n_fail_set)
    /\ sta' = "idle"
    /\ UNCHANGED <<s_retry_num, reconnects, n_connect, wifi_result>>

(* WIFI_EVENT_STA_DISCONNECTED: the driver posts it when a connection       *)
(* attempt fails or an established connection is lost                       *)
StaDisconnected ==
    /\ sta \in {"connecting", "connected"}
    /\ wifi_ev' = "WIFI_EVENT_STA_DISCONNECTED"
    /\ retry_on_entry' = s_retry_num
    /\ IF RetryAllowed THEN RetryBranch ELSE FailBranch
    /\ UNCHANGED <<n_got_ip, mqttVars, taskVars, brokerVars>>
    /\ UNCHANGED measVars

(* variant: the GOT_IP branch without the reset *)
ResetRetry_missing == s_retry_num' = s_retry_num

(* s_retry_num = 0 *)
ResetRetry == s_retry_num' = 0

(* IP_EVENT_STA_GOT_IP: the attempt succeeded and DHCP gave an address, or  *)
(* the address of a connected station changed                               *)
GotIp ==
    /\ sta \in {"connecting", "connected"}
    /\ wifi_ev' = "IP_EVENT_STA_GOT_IP"
    /\ retry_on_entry' = s_retry_num
    /\ sta' = "connected"
    /\ ResetRetry
    /\ reconnects' = 0
    /\ n_got_ip' = Inc(n_got_ip)
    /\ SetBits(WIFI_CONNECTED_BIT)
    /\ wifi_result' = wifi_result
    /\ UNCHANGED <<n_connect, n_fail_set, mqttVars, taskVars, brokerVars>>
    /\ UNCHANGED measVars

(***************************************************************************)
(* app_main and wifi_init_sta                                              *)
(***************************************************************************)

(* nvs_flash_init (with one erase-and-retry); ESP_ERROR_CHECK aborts on failure *)
NvsInit ==
    /\ main_pc = "nvs_init"
    /\ \E ok \in BOOLEAN : main_pc' = IF ok THEN "wifi_init" ELSE "aborted"
    /\ UNCHANGED <<wifi_result, wifiVars, groupVars, mqttVars, taskVars, brokerVars>>
    /\ UNCHANGED measVars

(* wifi_init_sta up to esp_wifi_start(): creates the event group, registers *)
(* event_handler, starts the station                                        *)
WifiInitStart ==
    /\ main_pc = "wifi_init"
    /\ bits' = {}
    /\ sta' = "started"
    /\ main_pc' = "wait_bits"
    /\ UNCHANGED <<wifi_ev, retry_on_entry, s_retry_num, n_connect, reconnects, n_got_ip,
                   n_fail_set, uxReturn, wifi_result, mqttVars, taskVars, brokerVars>>
    /\ UNCHANGED measVars

(* variant: a zero xTicksToWait, the call returns the bits as they are *)
WaitBits_noBlock ==
    /\ main_pc = "wait_bits"
    /\ main_pc' = "wifi_ret"
    /\ uxReturn' = bits
    /\ UNCHANGED <<bits, wifi_result, wifiVars, mqttVars, taskVars, brokerVars>>
    /\ UNCHANGED measVars

(* xEventGroupWaitBits(CONNECTED | FAIL, pdFALSE, pdFALSE, portMAX_DELAY):  *)
(* returns at once when a bit is already set, else blocks                   *)
WaitBits ==
    /\ main_pc = "wait_bits"
    /\ IF bits # {}
       THEN main_pc' = "wifi_ret" /\ uxReturn' = bits
       ELSE main_pc' = "blocked" /\ UNCHANGED uxReturn
    /\ UNCHANGED <<bits, wifi_result, wifiVars, mqttVars, taskVars, brokerVars>>
    /\ UNCHANGED measVars

(* the if/else-if/else on the returned bits *)
WifiInitReturn ==
    /\ main_pc = "wifi_ret"
    /\ wifi_result' = IF WIFI_CONNECTED_BIT \in uxReturn THEN "connected"
                      ELSE IF WIFI_FAIL_BIT \in uxReturn THEN "failed"
                      ELSE "unexpected"
    /\ main_pc' = "mqtt_start"
    /\ UNCHANGED <<wifiVars, groupVars, mqttVars, taskVars, brokerVars>>
    /\ UNCHANGED measVars

(* mqtt_app_start(): init, register mqtt_event_handler, start the client *)
MqttAppStart ==
    /\ main_pc = "mqtt_start"
    /\ mqtt_client' = "started"
    /\ main_pc' = "task_create"
    /\ UNCHANGED <<wifi_result, mqtt_connected, mqtt_log, n_connected_ev,
                   wifiVars, groupVars, taskVars, brokerVars>>
    /\ UNCHANGED measVars

(* xTaskCreate(sensor_task, ...) *)
CreateSensorTask ==
    /\ main_pc = "task_create"
    /\ sensor_pc' = "poll"
    /\ sensor_log' = "Waiting for MQTT connection..."
    /\ main_pc' = "done"
    /\ UNCHANGED <<wifi_result, seen_connected, wifiVars, groupVars, mqttVars, brokerVars>>
    /\ UNCHANGED measVars

(***************************************************************************)
(* mqtt_event_handler, run by the MQTT client task once the client is      *)
(* started.  The client connects only over an established link, reports a  *)
(* lost session or a failed connection attempt with MQTT_EVENT_DISCONNECTED *)
(* and reconnects by itself.                                               *)
(***************************************************************************)

MqttConnected ==
    /\ mqtt_client = "started"
    /\ sta = "connected"
    /\ ~mqtt_connected
    /\ mqtt_log' = "MQTT_EVENT_CONNECTED"
    /\ mqtt_connected' = TRUE
    /\ n_connected_ev' = Inc(n_connected_ev)
    /\ UNCHANGED <<mqtt_client, wifiVars, groupVars, mainVars, taskVars, brokerVars>>
    /\ UNCHANGED measVars

MqttDisconnected ==
    /\ mqtt_client = "started"
    /\ mqtt_log' = "MQTT_EVENT_DISCONNECTED"
    /\ mqtt_connected' = FALSE
    /\ UNCHANGED <<mqtt_client, n_connected_ev, wifiVars, groupVars, mainVars, taskVars,
                   brokerVars>>
    /\ UNCHANGED measVars

ErrorTypes == {"MQTT_ERROR_TYPE_TCP_TRANSPORT", "MQTT_ERROR_TYPE_CONNECTION_REFUSED",
               "MQTT_ERROR_TYPE_NONE"}

(* variant: the error case falls through to the disconnected state *)
MqttError_marksDisconnected ==
    /\ mqtt_client = "started"
    /\ \E error_type \in ErrorTypes :
         mqtt_log' = IF error_type = "MQTT_ERROR_TYPE_TCP_TRANSPORT"
                       THEN "Last error code"
                     ELSE IF error_type = "MQTT_ERROR_TYPE_CONNECTION_REFUSED"
                       THEN "Connection refused error"
                     ELSE "MQTT_EVENT_ERROR"
    /\ mqtt_connected' = FALSE
    /\ UNCHANGED <<mqtt_client, n_connected_ev, wifiVars, groupVars,
                   mainVars, taskVars, brokerVars>>
    /\ UNCHANGED measVars

(* case MQTT_EVENT_ERROR: log the event and, by error type, the error code *)
MqttError ==
    /\ mqtt_client = "started"
    /\ \E error_type \in ErrorTypes :
         mqtt_log' = IF error_type = "MQTT_ERROR_TYPE_TCP_TRANSPORT"
                       THEN "Last error code"
                     ELSE IF error_type = "MQTT_ERROR_TYPE_CONNECTION_REFUSED"
                       THEN "Connection refused error"
                     ELSE "MQTT_EVENT_ERROR"
    /\ UNCHANGED <<mqtt_client, mqtt_connected, n_connected_ev, wifiVars, groupVars,
                   mainVars, taskVars, brokerVars>>
    /\ UNCHANGED measVars

(***************************************************************************)
(* esp_mqtt_client_publish(mqtt_client, topic, payload, 0, qos, retain):    *)
(* best effort, never blocks; the call is recorded with the session state  *)
(* at the moment it is made.                                               *)
(***************************************************************************)
Publish(topic, qos, retain) ==
    /\ last_pub' = [topic |-> topic, qos |-> qos, retain |-> retain,
                    connected |-> mqtt_connected]
    /\ n_pub' = [n_pub EXCEPT ![topic] = Inc(@)]

(***************************************************************************)
(* sensor_task: wait for the session, settle, discovery, telemetry loop    *)
(***************************************************************************)

(* variant: the wait loop is left whatever the connected flag says *)
SensorPoll_noWait ==
    /\ sensor_pc = "poll"
    /\ sensor_pc' = "settle"
    /\ UNCHANGED <<sensor_log, seen_connected, wifiVars, groupVars, mainVars, mqttVars,
                   brokerVars>>
    /\ UNCHANGED measVars

(* while (!mqtt_connected) *)
SensorPoll ==
    /\ sensor_pc = "poll"
    /\ sensor_pc' = IF ~mqtt_connected THEN "poll_delay" ELSE "settle"
    /\ UNCHANGED <<sensor_log, seen_connected, wifiVars, groupVars, mainVars, mqttVars,
                   brokerVars>>
    /\ UNCHANGED measVars

(* vTaskDelay(pdMS_TO_TICKS(1000)) inside the wait loop *)
SensorPollDelay ==
    /\ sensor_pc = "poll_delay"
    /\ sensor_pc' = "poll"
    /\ UNCHANGED <<sensor_log, seen_connected, wifiVars, groupVars, mainVars, mqttVars,
                   brokerVars>>
    /\ UNCHANGED measVars

(* vTaskDelay(pdMS_TO_TICKS(2000)), then the call of publish_ha_discovery *)
SensorSettle ==
    /\ sensor_pc = "settle"
    /\ sensor_pc' = "discovery"
    /\ sensor_log' = "Publishing Home Assistant discovery messages..."
    /\ UNCHANGED <<seen_connected, wifiVars, groupVars, mainVars, mqttVars, brokerVars>>
    /\ UNCHANGED measVars

(* variant: publish_ha_discovery without the connected guard *)
DiscoveryEnter_unguarded ==
    /\ sensor_pc = "discovery"
    /\ n_disc_calls' = Inc(n_disc_calls)
    /\ sensor_pc' = "disc_distance"
    /\ UNCHANGED <<sensor_log, seen_connected, last_pub, n_pub, wifiVars, groupVars, mainVars,
                   mqttVars>>
    /\ UNCHANGED measVars

(* publish_ha_discovery entry: if (!mqtt_connected) return *)
DiscoveryEnter ==
    /\ sensor_pc = "discovery"
    /\ n_disc_calls' = Inc(n_disc_calls)
    /\ IF ~mqtt_connected
       THEN /\ sensor_log' = "MQTT not connected, skipping discovery"
            /\ sensor_pc' = "discovery_done"
       ELSE /\ sensor_pc' = "disc_distance"
            /\ UNCHANGED sensor_log
    /\ UNCHANGED <<seen_connected, last_pub, n_pub, wifiVars, groupVars, mainVars, mqttVars>>
    /\ UNCHANGED measVars

(* publish of the distance sensor's config record *)
DiscoveryDistance ==
    /\ sensor_pc = "disc_distance"
    /\ Publish(DistanceConfigTopic, 1, TRUE)
    /\ sensor_log' = "Published distance sensor discovery"
    /\ sensor_pc' = "disc_percentage"
    /\ UNCHANGED <<seen_connected, n_disc_calls, wifiVars, groupVars, mainVars, mqttVars>>
    /\ UNCHANGED measVars

(* variant: the second record sent like a state message, QoS 0, not retained *)
DiscoveryPercentage_notRetained ==
    /\ sensor_pc = "disc_percentage"
    /\ Publish(PercentageConfigTopic, 0, FALSE)
    /\ sensor_log' = "Published percentage sensor discovery"
    /\ sensor_pc' = "discovery_done"
    /\ UNCHANGED <<seen_connected, n_disc_calls, wifiVars, groupVars, mainVars, mqttVars>>
    /\ UNCHANGED measVars

(* publish of the percentage sensor's config record, return *)
DiscoveryPercentage ==
    /\ sensor_pc = "disc_percentage"
    /\ Publish(PercentageConfigTopic, 1, TRUE)
    /\ sensor_log' = "Published percentage sensor discovery"
    /\ sensor_pc' = "discovery_done"
    /\ UNCHANGED <<seen_connected, n_disc_calls, wifiVars, groupVars, mainVars, mqttVars>>
    /\ UNCHANGED measVars

(* back in sensor_task: log, format the state topic, enter while (1) *)
DiscoverySent ==
    /\ sensor_pc = "discovery_done"
    /\ sensor_log' = "Discovery messages sent!"
    /\ sensor_pc' = "read"
    /\ UNCHANGED <<seen_connected, wifiVars, groupVars, mainVars, mqttVars, brokerVars>>
    /\ UNCHANGED measVars

(* read_distance_cm, calculate_percentage, the Distance/Salt level log line; *)
(* the measured values play no part in the control flow and are not state   *)
ReadSensor ==
    /\ sensor_pc = "read"
    /\ sensor_log' = "Distance: cm, Salt level: %"
    /\ sensor_pc' = "check"
    /\ UNCHANGED <<seen_connected, wifiVars, groupVars, mainVars, mqttVars, brokerVars>>
    /\ UNCHANGED measVars

(* variant: the publish is not guarded by the connected flag *)
CheckConnected_unguarded ==
    /\ sensor_pc = "check"
    /\ seen_connected' = mqtt_connected
    /\ sensor_pc' = "publish"
    /\ UNCHANGED <<sensor_log, wifiVars, groupVars, mainVars, mqttVars, brokerVars>>
    /\ UNCHANGED measVars

(* if (mqtt_connected) *)
CheckConnected ==
    /\ sensor_pc = "check"
    /\ seen_connected' = mqtt_connected
    /\ sensor_pc' = IF mqtt_connected THEN "publish" ELSE "skip"
    /\ UNCHANGED <<sensor_log, wifiVars, groupVars, mainVars, mqttVars, brokerVars>>
    /\ UNCHANGED measVars

(* snprintf of the payload, esp_mqtt_client_publish on the state topic *)
PublishState ==
    /\ sensor_pc = "publish"
    /\ Publish(StateTopic, 0, FALSE)
    /\ sensor_log' = "Published to MQTT"
    /\ sensor_pc' = "cycle_delay"
    /\ UNCHANGED <<seen_connected, n_disc_calls, wifiVars, groupVars, mainVars, mqttVars>>
    /\ UNCHANGED measVars

(* variant: the else branch returns from the task function *)
SkipPublish_leavesLoop ==
    /\ sensor_pc = "skip"
    /\ sensor_log' = "MQTT not connected, skipping publish"
    /\ sensor_pc' = "returned"
    /\ UNCHANGED <<seen_connected, wifiVars, groupVars, mainVars, mqttVars, brokerVars>>
    /\ UNCHANGED measVars

(* else: ESP_LOGW skipping publish *)
SkipPublish ==
    /\ sensor_pc = "skip"
    /\ sensor_log' = "MQTT not connected, skipping publish"
    /\ sensor_pc' = "cycle_delay"
    /\ UNCHANGED <<seen_connected, wifiVars, groupVars, mainVars, mqttVars, brokerVars>>
    /\ UNCHANGED measVars

(* variant: the loop head sits above the publish_ha_discovery call *)
CycleDelay_rediscovers ==
    /\ sensor_pc = "cycle_delay"
    /\ sensor_pc' = "discovery"
    /\ UNCHANGED <<sensor_log, seen_connected, wifiVars, groupVars, mainVars, mqttVars,
                   brokerVars>>
    /\ UNCHANGED measVars

(* vTaskDelay(CONFIG_READING_INTERVAL_SEC * 1000), next iteration *)
CycleDelay ==
    /\ sensor_pc = "cycle_delay"
    /\ sensor_pc' = "read"
    /\ UNCHANGED <<sensor_log, seen_connected, wifiVars, groupVars, mainVars, mqttVars,
                   brokerVars>>
    /\ UNCHANGED measVars

EventLoopTask == StaStart \/ StaDisconnected \/ GotIp
MainTask == NvsInit \/ WifiInitStart \/ WaitBits \/ WifiInitReturn \/ MqttAppStart
            \/ CreateSensorTask
MqttTask == MqttConnected \/ MqttDisconnected \/ MqttError
SensorTask == SensorPoll \/ SensorPollDelay \/ SensorSettle \/ DiscoveryEnter
              \/ DiscoveryDistance \/ DiscoveryPercentage \/ DiscoverySent
              \/ ReadSensor \/ CheckConnected \/ PublishState \/ SkipPublish \/ CycleDelay

Next == EventLoopTask \/ MainTask \/ MqttTask \/ SensorTask

Spec == Init /\ [][Next]_vars

(* sensor_task is a ready FreeRTOS task whenever its delay has expired: the *)
(* scheduler runs it again, whatever the other tasks do                     *)
LiveSpec == Init /\ [][Next]_vars /\ WF_vars(SensorTask)

(* the driver answers a pending connection attempt with one of the two     *)
(* events, and the event loop task delivers it to event_handler            *)
ConnectAnswered == sta = "connecting" /\ (StaDisconnected \/ GotIp)

(* the event loop delivers STA_START and the answer to every attempt, and  *)
(* app_main's task runs whenever it is not blocked                         *)
WifiLiveSpec ==
    /\ Init
    /\ [][Next]_vars
    /\ WF_vars(StaStart)
    /\ WF_vars(ConnectAnswered)
    /\ WF_vars(MainTask)

(***************************************************************************)
(* The measurement path of a telemetry cycle: read_distance_cm,            *)
(* calculate_percentage and the state payload.  Lengths are in tenths of a *)
(* cm; a float result is the exact fraction num/den with den > 0 (float    *)
(* rounding is monotone and leaves 0 and 100 exact, so it never moves a    *)
(* value across a clamp bound).                                            *)
(***************************************************************************)

(* largest magnitude of a distance handed to calculate_percentage, in cm *)
MaxDistanceCm == 160
(* number of read_distance_cm calls followed in a run *)
MaxReads == 50
(* values of CONFIG_TANK_HEIGHT_CM followed *)
TankHeights == {1, 30, 100, 150}
Distances == (0 - MaxDistanceCm * 10)..(MaxDistanceCm * 10)

(* the mock of read_distance_cm: 10.0f + (count % 50) * 1.5f *)
MockBaseTenths == 100
MockPeriod == 50
MockStepTenths == 15

Frac(n, d) == [num |-> n, den |-> d]
RatLess(a, b) == a.num * b.den < b.num * a.den
RatEq(a, b) == a.num * b.den = b.num * a.den

(* variant: the upper clamp is missing *)
calculate_percentage_noUpperClamp(distance_cm) ==
    LET tank == tank_height * 10
        salt_height == tank - distance_cm
        raw == Frac(salt_height * 100, tank)
    IN  IF RatLess(raw, Frac(0, 1)) THEN Frac(0, 1) ELSE raw

(* variant: the distance itself is scaled, not the height of the salt *)
calculate_percentage_notInverted(distance_cm) ==
    LET tank == tank_height * 10
        raw == Frac(distance_cm * 100, tank)
        low == IF RatLess(raw, Frac(0, 1)) THEN Frac(0, 1) ELSE raw
    IN  IF RatLess(Frac(100, 1), low) THEN Frac(100, 1) ELSE low

(* calculate_percentage: salt_height = tank_height - distance_cm;          *)
(* percentage = (salt_height / tank_height) * 100; then the two ifs        *)
calculate_percentage(distance_cm) ==
    LET tank == tank_height * 10
        salt_height == tank - distance_cm
        raw == Frac(salt_height * 100, tank)
        low == IF RatLess(raw, Frac(0, 1)) THEN Frac(0, 1) ELSE raw
    IN  IF RatLess(Frac(100, 1), low) THEN Frac(100, 1) ELSE low

(* "%.1f": the value in tenths, rounded to nearest, ties to even *)
FormatOneDecimal(r) ==
    LET n == r.num * 10
        q == n \div r.den
        rem == n % r.den
    IN  IF 2 * rem < r.den THEN q
        ELSE IF 2 * rem > r.den THEN q + 1
        ELSE IF q % 2 = 0 THEN q ELSE q + 1

(* a call of calculate_percentage on some distance, for some configured    *)
(* tank height; the rest of the program is at rest                         *)
MeasureInit ==
    /\ ProgInit
    /\ tank_height \in TankHeights
    /\ count = 0
    /\ distance \in Distances
    /\ percentage = NoPercentage
    /\ payload = NoPayload
    /\ meas_pc = "calc"

(* float percentage = calculate_percentage(distance) *)
CalculatePercentage ==
    /\ meas_pc = "calc"
    /\ percentage' = calculate_percentage(distance)
    /\ meas_pc' = "format"
    /\ UNCHANGED <<tank_height, count, distance, payload, progVars>>

(* snprintf(payload, "{\"distance\":%.1f,\"percentage\":%.1f}", ...) *)
FormatPayload ==
    /\ meas_pc = "format"
    /\ payload' = [distance |-> FormatOneDecimal(Frac(distance, 10)),
                   percentage |-> FormatOneDecimal(percentage)]
    /\ meas_pc' = "read"
    /\ UNCHANGED <<tank_height, count, distance, percentage, progVars>>

(* float distance = read_distance_cm(): count++, then the mock value *)
ReadDistance ==
    /\ meas_pc = "read"
    /\ count < MaxReads
    /\ count' = count + 1
    /\ distance' = MockBaseTenths + (count' % MockPeriod) * MockStepTenths
    /\ meas_pc' = "calc"
    /\ UNCHANGED <<tank_height, percentage, payload, progVars>>

MeasureNext == CalculatePercentage \/ FormatPayload \/ ReadDistance

MeasureSpec == MeasureInit /\ [][MeasureNext]_vars

(***************************************************************************)
(* Properties                                                              *)
(***************************************************************************)

(* sensor_task positions inside while (1) *)
RunningPcs == {"read", "check", "publish", "skip", "cycle_delay"}

(* app_main positions after xEventGroupWaitBits has returned *)
AfterWaitPcs == {"wifi_ret", "mqtt_start", "task_create", "done"}

(* C1, as claimed: every publish on the state topic is made while           *)
(* mqtt_connected is true, whatever the interleaving with the session       *)
(* events.                                                                  *)
C1_PublishOnlyWhileConnected ==
    last_pub.topic = StateTopic => last_pub.connected

(* C1, amended: every publish on the state topic is made in a cycle whose   *)
(* check `if (mqtt_connected)` read true, and a cycle whose check read      *)
(* false makes no publish call but logs the skip.                           *)
C1_PublishOnlyAfterConnectedCheck ==
    /\ sensor_pc = "publish" => seen_connected
    /\ sensor_log = "Published to MQTT" => seen_connected
    /\ sensor_pc = "skip" => ~seen_connected
    /\ sensor_log = "MQTT not connected, skipping publish" => ~seen_connected

(* C1 witness: a state publish made after the session dropped between the  *)
(* check and the publish call                                               *)
C1_PublishedAfterDrop ==
    /\ sensor_log = "Published to MQTT"
    /\ last_pub.topic = StateTopic
    /\ ~last_pub.connected
    /\ seen_connected

(* C2, as claimed: every MQTT Connected event has triggered one invocation  *)
(* of publish_ha_discovery, so once the telemetry loop is Running there are *)
(* as many invocations as Connected events.                                 *)
C2_DiscoveryPerConnectedEvent ==
    sensor_pc \in RunningPcs => n_disc_calls = n_connected_ev

(* a step taken from inside while (1) neither invokes the discovery        *)
(* publisher nor publishes a discovery record                               *)
CycleStepLeavesDiscoveryAlone ==
    sensor_pc \in RunningPcs =>
        /\ n_disc_calls' = n_disc_calls
        /\ n_pub'[DistanceConfigTopic] = n_pub[DistanceConfigTopic]
        /\ n_pub'[PercentageConfigTopic] = n_pub[PercentageConfigTopic]
        /\ sensor_pc' \notin {"discovery", "disc_distance", "disc_percentage"}

(* C3: publish_ha_discovery is invoked at most once, each discovery record  *)
(* is published at most once and no more often than a session was           *)
(* established, and no step of the telemetry cycle invokes the discovery    *)
(* publisher or publishes a discovery record.                               *)
C3_DiscoveryAtMostOncePerSession ==
    /\ [](/\ n_disc_calls <= 1
          /\ n_pub[DistanceConfigTopic] <= 1
          /\ n_pub[PercentageConfigTopic] <= 1
          /\ n_pub[DistanceConfigTopic] <= n_connected_ev
          /\ n_pub[PercentageConfigTopic] <= n_pub[DistanceConfigTopic])
    /\ [][CycleStepLeavesDiscoveryAlone]_vars

(* C3 witness: the first session is still up, several telemetry cycles have *)
(* published, and there is still one pair of discovery records              *)
C3_ManyCyclesOneDiscovery ==
    /\ n_connected_ev = 1
    /\ mqtt_connected
    /\ n_pub[StateTopic] >= 2
    /\ n_pub[DistanceConfigTopic] = 1
    /\ n_pub[PercentageConfigTopic] = 1
    /\ n_disc_calls = 1

(* a step taken from inside while (1) ends inside while (1) *)
CycleStepStaysInLoop == sensor_pc \in RunningPcs => sensor_pc' \in RunningPcs

(* C4: once in while (1), sensor_task stays in it; a cycle that skips the   *)
(* publish reaches the next cycle's sensor read; and if the session         *)
(* eventually stays connected, a Running loop publishes state again and     *)
(* again.                                                                   *)
C4_LoopNeverStops ==
    /\ [][CycleStepStaysInLoop]_vars
    /\ (sensor_pc = "skip") ~> (sensor_pc = "read")
    /\ (<>[]mqtt_connected /\ <>(sensor_pc \in RunningPcs))
         => []<>(sensor_log = "Published to MQTT")

(* C4 witness: a cycle skipped its publish after earlier cycles had         *)
(* published, and the loop is at the next cycle's sensor read               *)
C4_SkippedAndContinued ==
    /\ sensor_pc = "read"
    /\ sensor_log = "MQTT not connected, skipping publish"
    /\ n_pub[StateTopic] >= 1
    /\ n_connected_ev >= 2

(* no step clears WIFI_FAIL_BIT *)
FailBitLatched == WIFI_FAIL_BIT \in bits => WIFI_FAIL_BIT \in bits'

StepKeepsLinkFailed ==
    WIFI_FAIL_BIT \in bits =>
        /\ bits' = bits
        /\ n_connect' = n_connect
        /\ n_got_ip' = n_got_ip
        /\ s_retry_num' = s_retry_num
        /\ sta = "idle" /\ sta' = "idle"

(* C6: once WIFI_FAIL_BIT is set, no step issues a connect attempt, handles *)
(* a GotAddress event, changes the retry counter or the event bits, or      *)
(* moves the station out of idle.                                           *)
C6_FailedIsTerminal ==
    [][StepKeepsLinkFailed]_vars

(* C6 witness: boot went on to its end after the link had failed *)
C6_RunContinuesAfterFailed ==
    /\ WIFI_FAIL_BIT \in bits
    /\ WIFI_CONNECTED_BIT \notin bits
    /\ main_pc = "done"
    /\ sensor_pc = "poll_delay"

(* C7, as claimed: link ready is set only while the link is connected, and  *)
(* link ready and link failed are never both set.                           *)
C7_LinkReadyOnlyWhileConnected ==
    /\ WIFI_CONNECTED_BIT \in bits => sta = "connected"
    /\ ~({WIFI_CONNECTED_BIT, WIFI_FAIL_BIT} \subseteq bits)

(* C8: wifi_init_sta is past its wait only with a signal the handler set in *)
(* hand; it reports Connected only after a GotAddress event, Failed only    *)
(* after the retries were exhausted, and never the unexpected outcome.      *)
C8_ConnectReturnsOnSignal ==
    /\ main_pc \in AfterWaitPcs =>
         /\ uxReturn # {}
         /\ uxReturn \subseteq bits
         /\ WIFI_CONNECTED_BIT \in uxReturn => n_got_ip >= 1
         /\ WIFI_FAIL_BIT \in uxReturn => n_fail_set >= 1
    /\ main_pc \notin AfterWaitPcs => uxReturn = {} /\ wifi_result = "none"
    /\ wifi_result = "connected" => n_got_ip >= 1
    /\ wifi_result = "failed" =>
         /\ n_fail_set >= 1
         /\ s_retry_num = MaxRetries
         /\ reconnects = MaxRetries
    /\ wifi_result # "unexpected"

(* C8 witness: the caller was blocked, was released by the GotAddress       *)
(* handler after retries, and reported Connected                            *)
C8_ReleasedConnected ==
    /\ wifi_result = "connected"
    /\ uxReturn = {WIFI_CONNECTED_BIT}
    /\ wifi_ev = "IP_EVENT_STA_GOT_IP"
    /\ retry_on_entry >= 1

(* C9: after the handler of a GotAddress event s_retry_num is 0, whatever   *)
(* it was on entry, and a link that fails after a connected period has      *)
(* made MaxRetries reconnect attempts since its last GotAddress.            *)
C9_RetryResetOnGotAddress ==
    /\ wifi_ev = "IP_EVENT_STA_GOT_IP" => s_retry_num = 0
    /\ WIFI_FAIL_BIT \in bits => reconnects = MaxRetries

(* C9 witness: GotAddress handled when the counter stood at MaxRetries *)
C9_ResetFromMax ==
    /\ wifi_ev = "IP_EVENT_STA_GOT_IP"
    /\ retry_on_entry = MaxRetries
    /\ MaxRetries > 0
    /\ s_retry_num = 0

(* C10: 0 <= s_retry_num <= MaxRetries; the counter equals the number of    *)
(* reconnect attempts since the last GotAddress; a StationDisconnected      *)
(* event below the maximum adds one to it and leaves a connect attempt      *)
(* under way, one at the maximum leaves it unchanged and the station idle.  *)
C10_RetryCounterBounded ==
    /\ s_retry_num \in 0..MaxRetries
    /\ reconnects = s_retry_num
    /\ n_got_ip = 0 => n_connect <= MaxRetries + 1
    /\ (wifi_ev = "WIFI_EVENT_STA_DISCONNECTED" /\ retry_on_entry < MaxRetries) =>
         s_retry_num = retry_on_entry + 1 /\ sta = "connecting"
    /\ (wifi_ev = "WIFI_EVENT_STA_DISCONNECTED" /\ retry_on_entry >= MaxRetries) =>
         s_retry_num = retry_on_entry /\ sta = "idle"

(* C10 witness: a StationDisconnected event handled at the maximum *)
C10_DisconnectedAtMax ==
    /\ wifi_ev = "WIFI_EVENT_STA_DISCONNECTED"
    /\ retry_on_entry = MaxRetries
    /\ s_retry_num = MaxRetries
    /\ sta = "idle"

DiscoverySkipIsNoOp ==
    (sensor_pc = "discovery" /\ ~mqtt_connected /\ sensor_pc' # sensor_pc) =>
        /\ n_pub' = n_pub
        /\ last_pub' = last_pub
        /\ UNCHANGED <<mqttVars, wifiVars, groupVars, mainVars, seen_connected>>
        /\ sensor_log' = "MQTT not connected, skipping discovery"
        /\ sensor_pc' = "discovery_done"

(* the step after publish_ha_discovery has returned enters while (1) *)
DiscoveryReturnEntersLoop ==
    (sensor_pc = "discovery_done" /\ sensor_pc' # sensor_pc) => sensor_pc' = "read"

(* C12: publish_ha_discovery invoked while the session is not connected is  *)
(* a no-op (no message published, no state changed but the log), and the    *)
(* telemetry task reaches Running whether discovery published or skipped.   *)
C12_DiscoveryNoOpWhenDisconnected ==
    /\ [][DiscoverySkipIsNoOp]_vars
    /\ [][DiscoveryReturnEntersLoop]_vars
    /\ [](sensor_log = "MQTT not connected, skipping discovery" =>
            /\ n_pub[DistanceConfigTopic] = 0
            /\ n_pub[PercentageConfigTopic] = 0
            /\ last_pub = NoPub)
    /\ (sensor_pc = "discovery") ~> (sensor_pc = "read")

(* C12 witness: the session dropped during the settle delay, discovery was  *)
(* invoked and published nothing, and the task is in while (1)              *)
C12_SkippedDiscoveryThenRunning ==
    /\ sensor_pc = "read"
    /\ sensor_log = "Discovery messages sent!"
    /\ n_disc_calls = 1
    /\ n_pub[DistanceConfigTopic] = 0
    /\ n_pub[PercentageConfigTopic] = 0

(* the lines mqtt_event_handler logs for an MQTT_EVENT_ERROR *)
ErrorLogs == {"Last error code", "Connection refused error", "MQTT_EVENT_ERROR"}

(* a step that handles an Error event leaves mqtt_connected, the client and *)
(* the telemetry task where they are                                        *)
ErrorStepKeepsSession ==
    (mqtt_log' \in ErrorLogs /\ mqtt_log' # mqtt_log) =>
        /\ mqtt_connected' = mqtt_connected
        /\ mqtt_client' = mqtt_client
        /\ UNCHANGED <<taskVars, brokerVars>>

(* a step that changes mqtt_connected is the Connected or the Disconnected  *)
(* callback, and no step of sensor_task or publish_ha_discovery             *)
OnlyCallbacksWriteSession ==
    mqtt_connected' # mqtt_connected =>
        /\ mqtt_log' = IF mqtt_connected' THEN "MQTT_EVENT_CONNECTED"
                       ELSE "MQTT_EVENT_DISCONNECTED"
        /\ UNCHANGED <<taskVars, brokerVars>>

(* C13: an MQTT Error event of either class leaves mqtt_connected unchanged *)
(* and does not move or stop the telemetry task; mqtt_connected is written  *)
(* only by the Connected and Disconnected callbacks.                        *)
C13_ErrorKeepsSessionState ==
    /\ [][ErrorStepKeepsSession]_vars
    /\ [][OnlyCallbacksWriteSession]_vars

(* C13 witness: a connection-refused Error was handled while the session    *)
(* was connected, with the telemetry loop publishing                        *)
C13_ErrorWhileConnected ==
    /\ mqtt_log = "Connection refused error"
    /\ mqtt_connected
    /\ sensor_log = "Published to MQTT"
    /\ last_pub.connected

(* C14: every publish call is on one of the three topics; on a discovery    *)
(* config topic it is made with QoS 1 and retain = true, on the state topic *)
(* with QoS 0 and retain = false.                                           *)
C14_AttributesFixedPerTopic ==
    last_pub # NoPub =>
        /\ last_pub.topic \in Topics
        /\ last_pub.topic \in {DistanceConfigTopic, PercentageConfigTopic} =>
             last_pub.qos = 1 /\ last_pub.retain = TRUE
        /\ last_pub.topic = StateTopic =>
             last_pub.qos = 0 /\ last_pub.retain = FALSE
        /\ n_pub[last_pub.topic] >= 1

(* C14 witness: both discovery records and a state message have been sent,  *)
(* the state message last                                                   *)
C14_AllTopicsPublished ==
    /\ n_pub[DistanceConfigTopic] = 1
    /\ n_pub[PercentageConfigTopic] = 1
    /\ n_pub[StateTopic] >= 1
    /\ last_pub.topic = StateTopic
    /\ last_pub.qos = 0
    /\ last_pub.retain = FALSE

(* positions where percentage holds calculate_percentage(distance) *)
MeasuredPcs == {"format", "read"}

(* C15: calculate_percentage returns a value in [0, 100] for every         *)
(* distance, negative ones and ones beyond the tank height included: such  *)
(* a reading is clamped to 100 or to 0, never refused, and every           *)
(* percentage put in a state payload lies in [0, 100] as well.             *)
C15_PercentageInRange ==
    /\ meas_pc \in MeasuredPcs =>
         /\ percentage.den > 0
         /\ 0 <= percentage.num
         /\ percentage.num <= 100 * percentage.den
         /\ distance < 0 => RatEq(percentage, Frac(100, 1))
         /\ distance > tank_height * 10 => RatEq(percentage, Frac(0, 1))
    /\ payload.percentage \in 0..1000

(* a reading beyond the tank height went through to the payload as 0 *)
C15_BeyondTankClamped ==
    /\ meas_pc = "read"
    /\ distance > tank_height * 10
    /\ RatEq(percentage, Frac(0, 1))
    /\ payload.percentage = 0
    /\ payload.distance = distance

RatMax(a, b) == IF RatLess(a, b) THEN b ELSE a
RatMin(a, b) == IF RatLess(a, b) THEN a ELSE b

(* the reference: clamp(((tank_height - distance) / tank_height) * 100, 0, 100) *)
ReferencePercentage(tank_cm, distance_tenths) ==
    RatMin(Frac(100, 1),
           RatMax(Frac(0, 1),
                  Frac((tank_cm * 10 - distance_tenths) * 100, tank_cm * 10)))

(* C16: calculate_percentage equals the reference clamp; an empty distance *)
(* gives 100, a distance of the tank height 0, half the tank height 50,    *)
(* and with a tank of 100 cm: 25 -> 75, 150 -> 0, -10 -> 100.              *)
C16_MatchesReference ==
    meas_pc \in MeasuredPcs =>
        /\ RatEq(percentage, ReferencePercentage(tank_height, distance))
        /\ distance = 0 => RatEq(percentage, Frac(100, 1))
        /\ distance = tank_height * 10 => RatEq(percentage, Frac(0, 1))
        /\ distance = tank_height * 5 => RatEq(percentage, Frac(50, 1))
        /\ tank_height = 100 =>
             /\ distance = 250 => RatEq(percentage, Frac(75, 1))
             /\ distance = 1500 => RatEq(percentage, Frac(0, 1))
             /\ distance = 0 - 100 => RatEq(percentage, Frac(100, 1))

(* the scenario value: tank 100 cm, distance 25 cm, 75 percent *)
C16_ScenarioQuarter ==
    /\ meas_pc = "format"
    /\ tank_height = 100
    /\ distance = 250
    /\ RatEq(percentage, Frac(75, 1))

(* C17: discovery precedes telemetry: whenever a state message has been    *)
(* published, both discovery messages were published before it, also when  *)
(* the session was down at discovery time and came back later.             *)
C17_DiscoveryBeforeTelemetry ==
    n_pub[StateTopic] >= 1 =>
        /\ n_pub[DistanceConfigTopic] >= 1
        /\ n_pub[PercentageConfigTopic] >= 1

(* sensor_task positions inside while (!mqtt_connected) *)
AwaitingPcs == {"poll", "poll_delay"}

(* the wait loop is left only by a poll that reads mqtt_connected true *)
LeavesAwaitingOnConnectedPoll ==
    (sensor_pc \in AwaitingPcs /\ sensor_pc' \notin AwaitingPcs) =>
        (sensor_pc = "poll" /\ mqtt_connected /\ sensor_pc' = "settle")

(* C18: while sensor_task waits for the session it invokes no discovery,   *)
(* reads nothing and publishes nothing, and it leaves the wait only when a  *)
(* poll observes the session connected; if the session eventually becomes   *)
(* and stays connected, the task leaves the wait, invokes discovery once    *)
(* and reaches the telemetry loop.                                          *)
C18_WaitsForSession ==
    /\ [](sensor_pc \in AwaitingPcs =>
            /\ n_disc_calls = 0
            /\ \A t \in Topics : n_pub[t] = 0
            /\ last_pub = NoPub
            /\ sensor_log \in {"none", "Waiting for MQTT connection..."})
    /\ [][LeavesAwaitingOnConnectedPoll]_vars
    /\ [](sensor_pc \in RunningPcs => n_disc_calls = 1)
    /\ (<>[]mqtt_connected /\ <>(sensor_pc # "not_created"))
         => <>(sensor_pc \in RunningPcs /\ n_disc_calls = 1)

(* C18 witness: the session is connected, the task has left the wait, made  *)
(* its one discovery call and stands at the first sensor read               *)
C18_LeftWaitAndRunning ==
    /\ sensor_pc = "read"
    /\ sensor_log = "Discovery messages sent!"
    /\ n_disc_calls = 1
    /\ n_pub[StateTopic] = 0
    /\ mqtt_connected

(* the step that releases the caller blocked in xEventGroupWaitBits comes   *)
(* with a bit set and after at most MaxRetries + 1 esp_wifi_connect calls   *)
ReleaseWithinAttempts ==
    (main_pc = "blocked" /\ main_pc' # "blocked") =>
        /\ main_pc' = "wifi_ret"
        /\ uxReturn' \in {{WIFI_CONNECTED_BIT}, {WIFI_FAIL_BIT}}
        /\ n_connect' >= 1
        /\ n_connect' <= MaxRetries + 1

(* C19: wifi_init_sta terminates: when every connection attempt is         *)
(* answered by GOT_IP or STA_DISCONNECTED and the events are delivered, a   *)
(* caller waiting in wifi_init_sta is eventually released and returns with  *)
(* the link ready or failed, after at most MaxRetries + 1 connect attempts. *)
C19_ConnectTerminates ==
    /\ (main_pc \in {"wait_bits", "blocked"}) ~> (main_pc = "wifi_ret" /\ uxReturn # {})
    /\ (main_pc = "blocked") ~> (wifi_result \in {"connected", "failed"})
    /\ [][ReleaseWithinAttempts]_vars
    /\ [](wifi_result \in {"none", "connected", "failed"})

(* C19 witness: the blocked caller was released by WIFI_FAIL_BIT after the  *)
(* first attempt and MaxRetries retries, none of which got an address       *)
C19_ReleasedAfterAllAttempts ==
    /\ main_pc = "wifi_ret"
    /\ uxReturn = {WIFI_FAIL_BIT}
    /\ n_connect = MaxRetries + 1
    /\ reconnects = MaxRetries
    /\ n_got_ip = 0

====
